---------------------------- MODULE Spec2Model ----------------------------
(***************************************************************************)
(* Model of src/src/model.py: SegModel / UNetSegModel, the Lightning       *)
(* module that couples a U-Net to the training, validation and test        *)
(* callbacks, the experiment logging and the collation of the test         *)
(* predictions into self.submission.                                       *)
(*                                                                         *)
(* Tensors are records [dtype, data] whose data is a nested sequence       *)
(* (outermost dimension first).  Python dicts are functions from their     *)
(* keys, Optional[x] is <<>> (None) or <<x>>.  Floating-point scalars are  *)
(* exact rationals [n, d], or NaN.                                         *)
(***************************************************************************)
EXTENDS Integers, Sequences, FiniteSets, TLC

VARIABLES
    hparams,     \* the attributes set by __init__ (num_classes, lr, ...)
    net,         \* self.net, the network returned by build()
    logger,      \* self.logger: TRUE when the trainer attached one
    submission,  \* self.submission: None or <<dict>>
    loader,      \* the test batches the trainer has still to hand over
    outputs,     \* the test_step results the trainer has collected
    metric,      \* what the external iou() returns for each sample's prediction
    call         \* the last callback the trainer ran: arguments and effects

vars == <<hparams, net, logger, submission, loader, outputs, metric, call>>

----------------------------------------------------------------------------
(* Bounds and program constants *)

MaxBatch == 2
MaxTestSet == 2
LogEvery == 50
T_max_default == 10

None == <<>>
Some(x) == <<x>>

----------------------------------------------------------------------------
(* Scalars *)

RECURSIVE Gcd(_, _)
Gcd(a, b) == IF b = 0 THEN a ELSE Gcd(b, a % b)

NaN == [nan |-> TRUE, n |-> 0, d |-> 1]
Rat(n, d) == LET g == Gcd(n, d) IN [nan |-> FALSE, n |-> n \div g, d |-> d \div g]
Zero == Rat(0, 1)

\* iou_score += x
IAdd(a, b) ==
    IF a.nan \/ b.nan THEN NaN ELSE Rat(a.n * b.d + b.n * a.d, a.d * b.d)

\* iou_score /= k for a float tensor and a Python int: 0/0 is NaN
IDiv(a, k) ==
    IF a.nan THEN NaN
    ELSE IF k = 0 THEN (IF a.n = 0 THEN NaN ELSE [nan |-> FALSE, n |-> 1, d |-> 0])
    ELSE Rat(a.n, a.d * k)

InUnit(a) == ~a.nan /\ a.d > 0 /\ 0 <= a.n /\ a.n <= a.d

----------------------------------------------------------------------------
(* Tensor operations *)

Tensor(dtype, data) == [dtype |-> dtype, data |-> data]

Float(t) == Tensor("float32", t.data)
Long(t) == Tensor("int64", t.data)

\* index (from 0) of the first maximal value
ArgMaxSeq(v) ==
    (CHOOSE i \in 1..Len(v) :
        /\ \A j \in 1..Len(v) : v[j] <= v[i]
        /\ \A j \in 1..(i - 1) : v[j] < v[i]) - 1

\* x.argmax(dim=0) of data of shape (C, H, W)
ArgMax0(x) ==
    [i \in 1..Len(x[1]) |->
        [j \in 1..Len(x[1][1]) |-> ArgMaxSeq([c \in 1..Len(x) |-> x[c][i][j]])]]

\* x.argmax(dim=1) of data of shape (B, C, H, W)
ArgMax1(x) == [b \in 1..Len(x) |-> ArgMax0(x[b])]

\* m.t() of data of shape (H, W)
Transpose(m) ==
    [j \in 1..Len(m[1]) |-> [i \in 1..Len(m) |-> m[i][j]]]

\* x.squeeze() of data of the given rank: every dimension of size 1 goes
RECURSIVE Squeeze(_, _)
Squeeze(x, rank) ==
    IF rank = 0 THEN x
    ELSE IF Len(x) = 1 THEN Squeeze(x[1], rank - 1)
    ELSE [i \in 1..Len(x) |-> Squeeze(x[i], rank - 1)]

\* the shape of data of the given rank with at least one element per dimension
RECURSIVE Shape(_, _)
Shape(x, rank) ==
    IF rank = 0 THEN <<>> ELSE <<Len(x)>> \o Shape(x[1], rank - 1)

\* x.squeeze().cpu().detach().numpy() of a tensor of the given rank: the
\* array with its shape
NotOne(d) == d # 1

numpy_squeezed(x, rank) ==
    [shape |-> SelectSeq(Shape(x, rank), NotOne), data |-> Squeeze(x, rank)]

\* zip(a, b, c): as long as the shortest
Min3(a, b, c) ==
    LET m == IF a <= b THEN a ELSE b IN IF m <= c THEN m ELSE c


----------------------------------------------------------------------------
(* External collaborators: the U-Net, the loss, the metric, the image logger *)

\* pl_examples UNet(num_classes, num_layers, features_start, bilinear)
UNet(num_classes, num_layers, features_start, bilinear) ==
    [num_classes |-> num_classes, num_layers |-> num_layers,
     features_start |-> features_start, bilinear |-> bilinear]

\* self.net(x): logits of shape (B, num_classes, H, W) for x of shape
\* (B, C_in, H, W).  The weights are fixed: the class a pixel scores highest
\* for is its intensity modulo the number of classes.
NetApply(n, x) ==
    Tensor("float32",
        [b \in 1..Len(x.data) |->
            [c \in 1..n.num_classes |->
                [i \in 1..Len(x.data[b][1]) |->
                    [j \in 1..Len(x.data[b][1][1]) |->
                        IF x.data[b][1][i][j] % n.num_classes = c - 1
                        THEN 1 ELSE 0]]]])

\* src.data.CLASS_LABELS, passed through to the image logger
CLASS_LABELS == "CLASS_LABELS"

\* torchvision to_pil_image(_img)
to_pil_image(img) == [pil |-> img]

\* wandb.Image(to_pil_image(_img), masks={...}) for one sample
mask_img(img, mask, out) ==
    [image |-> to_pil_image(img),
     masks |->
        [predictions |-> [mask_data |-> ArgMax0(out), class_labels |-> CLASS_LABELS],
         groud_truth |-> [mask_data |-> Transpose(mask), class_labels |-> CLASS_LABELS]]]

\* the list built by the loop over zip(img, mask, out)
mask_list(img, mask, out) ==
    [k \in 1..Min3(Len(img.data), Len(mask.data), Len(out.data)) |->
        mask_img(img.data[k], mask.data[k], out.data[k])]

----------------------------------------------------------------------------
(* Construction *)

\* UNetSegModel.build
build_wrong_classes(self) ==
    UNet(self.features_start, self.num_layers, self.features_start, self.bilinear)

build(self) ==
    UNet(self.num_classes, self.num_layers, self.features_start, self.bilinear)

\* UNetSegModel.__init__ followed by SegModel.__init__: the attributes, the
\* network and the empty submission
UNetSegModel_init(num_classes, num_layers, features_start, bilinear, lr, loss_fn, T_max) ==
    LET self == [num_layers |-> num_layers, features_start |-> features_start,
                 bilinear |-> bilinear, learning_rate |-> lr,
                 num_classes |-> num_classes, loss_fn |-> loss_fn, T_max |-> T_max]
    IN [hparams |-> self, net |-> build(self), submission |-> None]

\* SegModel.forward
forward(n, x) == NetApply(n, x)

\* SegModel.configure_optimizers
configure_optimizers(self, n) ==
    LET opt == [kind |-> "Adam", params |-> n, lr |-> self.learning_rate]
        sch == [kind |-> "CosineAnnealingLR", optimizer |-> opt, T_max |-> self.T_max]
    IN <<<<opt>>, <<sch>>>>

----------------------------------------------------------------------------
(* The training and validation callbacks.  Each operator is the whole       *)
(* handler: it yields the value returned, the dictionaries handed to        *)
(* self.logger.experiment.log, the values handed to self.log, the order of  *)
(* the calls made, and the batch as the handler leaves it.                  *)

\* training_step, lines 69-89: the dictionary for the experiment logger.
\* The predictions key is assigned inside the loop over the samples.
training_logging_dict_every_step(img, mask, out, loss, batch_index) ==
    LET lst == mask_list(img, mask, out)
    IN IF Len(lst) > 0
       THEN ("training/loss" :> loss) @@ ("training/predictions" :> lst)
       ELSE ("training/loss" :> loss)

training_logging_dict(img, mask, out, loss, batch_index) ==
    LET lst == mask_list(img, mask, out)
    IN IF batch_index % LogEvery = 0 /\ Len(lst) > 0
       THEN ("training/loss" :> loss) @@ ("training/predictions" :> lst)
       ELSE ("training/loss" :> loss)

\* a training_step that converts the batch's tensors in place
training_step_in_place(n, lg, batch, batch_index, loss) ==
    LET img == Float(batch.image)
        mask == Long(batch.mask)
        out == forward(n, img)
    IN [ret |-> loss,
        progbar |-> ("train_loss" :> loss),
        logged |-> IF lg
                   THEN <<training_logging_dict(img, mask, out, loss, batch_index)>>
                   ELSE <<>>,
        events |-> <<"forward", "loss_fn", "self.log">>
                   \o (IF lg THEN <<"experiment.log">> ELSE <<>>),
        batch |-> [batch EXCEPT !.image = img, !.mask = mask]]

\* SegModel.training_step(batch, batch_index); loss is what self.loss_fn
\* returns for (out, mask)
training_step(n, lg, batch, batch_index, loss) ==
    LET img == Float(batch.image)
        mask == Long(batch.mask)
        out == forward(n, img)
    IN [ret |-> loss,
        progbar |-> ("train_loss" :> loss),
        logged |-> IF lg
                   THEN <<training_logging_dict(img, mask, out, loss, batch_index)>>
                   ELSE <<>>,
        events |-> <<"forward", "loss_fn", "self.log">>
                   \o (IF lg THEN <<"experiment.log">> ELSE <<>>),
        batch |-> batch]

\* validation_step, lines 100-103: the accumulated IoU; ious[k] is what
\* iou(_out.argmax(dim=0), _mask, ignore_index=0) returns for sample k
RECURSIVE iou_sum(_, _)
iou_sum(ious, k) ==
    IF k = 0 THEN Zero ELSE IAdd(iou_sum(ious, k - 1), ious[k])

\* the accumulated IoU without the division by len(out)
iou_score_no_mean(mask, out, ious) ==
    LET k == IF Len(mask.data) <= Len(out.data) THEN Len(mask.data) ELSE Len(out.data)
    IN iou_sum(ious, k)

iou_score(mask, out, ious) ==
    LET k == IF Len(mask.data) <= Len(out.data) THEN Len(mask.data) ELSE Len(out.data)
    IN IDiv(iou_sum(ious, k), Len(out.data))

\* validation_step, lines 101-102: one call of iou() per item of
\* zip(mask, out)
iou_calls(mask, out) ==
    [k \in 1..(IF Len(mask.data) <= Len(out.data) THEN Len(mask.data) ELSE Len(out.data))
        |-> "iou"]

\* validation_step, lines 106-127: the dictionary for the experiment logger.
\* The predictions key is assigned after the loop.
validation_logging_dict_in_loop(img, mask, out, loss, score, batch_idx) ==
    LET base == ("validation/loss" :> loss) @@ ("validation/iou" :> score)
        lst == mask_list(img, mask, out)
    IN IF batch_idx = 0 /\ Len(lst) > 0
       THEN base @@ ("validation/predictions" :> lst)
       ELSE base

validation_logging_dict(img, mask, out, loss, score, batch_idx) ==
    LET base == ("validation/loss" :> loss) @@ ("validation/iou" :> score)
    IN IF batch_idx = 0
       THEN base @@ ("validation/predictions" :> mask_list(img, mask, out))
       ELSE base

\* a validation_step that calls the experiment logger before the forward pass
validation_step_log_first(n, lg, batch, batch_idx, loss, ious) ==
    LET img == Float(batch.image)
        mask == Long(batch.mask)
        out == forward(n, img)
        score == iou_score(mask, out, ious)
    IN [ret |-> loss,
        progbar |-> ("val_loss" :> loss) @@ ("iou" :> score),
        logged |-> IF lg
                   THEN <<validation_logging_dict(img, mask, out, loss, score, batch_idx)>>
                   ELSE <<>>,
        events |-> (IF lg THEN <<"experiment.log">> ELSE <<>>)
                   \o <<"forward", "loss_fn", "self.log">> \o iou_calls(mask, out)
                   \o <<"self.log">>,
        batch |-> batch]

\* SegModel.validation_step(batch, batch_idx)
validation_step(n, lg, batch, batch_idx, loss, ious) ==
    LET img == Float(batch.image)
        mask == Long(batch.mask)
        out == forward(n, img)
        score == iou_score(mask, out, ious)
    IN [ret |-> loss,
        progbar |-> ("val_loss" :> loss) @@ ("iou" :> score),
        logged |-> IF lg
                   THEN <<validation_logging_dict(img, mask, out, loss, score, batch_idx)>>
                   ELSE <<>>,
        events |-> <<"forward", "loss_fn", "self.log">> \o iou_calls(mask, out)
                   \o <<"self.log">>
                   \o (IF lg THEN <<"experiment.log">> ELSE <<>>),
        batch |-> batch]

----------------------------------------------------------------------------
(* The test callbacks *)

\* src.submission_generation.sample_to_submission: the Submission record of
\* one sample
sample_to_submission(filename, team_name, crop_name, mask) ==
    [filename |-> filename, team |-> team_name, crop |-> crop_name, mask |-> mask]

\* dataclasses.asdict
asdict(r) == [k \in DOMAIN r |-> r[k]]

\* d after d.pop(k)
Popped(d, k) == [x \in DOMAIN d \ {k} |-> d[x]]

\* a test_step that swaps the team and the crop
test_step_swapped(n, batch, batch_idx) ==
    LET predicted_mask == ArgMax1(forward(n, batch.image).data)
        submission_i == sample_to_submission(batch.filename[1], batch.crop[1],
                            batch.team[1], numpy_squeezed(predicted_mask, 3))
        submission_dict_i == asdict(submission_i)
    IN [ret |-> (submission_dict_i["filename"] :> Popped(submission_dict_i, "filename")),
        events |-> <<"forward">>,
        batch |-> batch]

\* SegModel.test_step(batch, batch_idx)
test_step(n, batch, batch_idx) ==
    LET predicted_mask == ArgMax1(forward(n, batch.image).data)
        submission_i == sample_to_submission(batch.filename[1], batch.team[1],
                            batch.crop[1], numpy_squeezed(predicted_mask, 3))
        submission_dict_i == asdict(submission_i)
    IN [ret |-> (submission_dict_i["filename"] :> Popped(submission_dict_i, "filename")),
        events |-> <<"forward">>,
        batch |-> batch]

\* collections.ChainMap(*maps): with no maps it holds one empty dict; a
\* lookup searches the maps in order and the first one holding the key wins
ChainMapKeys(maps) == UNION {DOMAIN maps[i] : i \in 1..Len(maps)}

ChainMapGet(maps, k) ==
    maps[CHOOSE i \in 1..Len(maps) :
            /\ k \in DOMAIN maps[i]
            /\ \A j \in 1..(i - 1) : k \notin DOMAIN maps[j]][k]

\* the dict that outputs[0].update(outputs[1]) ... would leave: last wins
test_epoch_end_last_wins(old, outs) ==
    Some([k \in ChainMapKeys(outs) |->
            outs[CHOOSE i \in 1..Len(outs) :
                    /\ k \in DOMAIN outs[i]
                    /\ \A j \in (i + 1)..Len(outs) : k \notin DOMAIN outs[j]][k]])

\* a collation that looks at the first output only
test_epoch_end_first_only(old, outs) ==
    Some(IF Len(outs) = 0 THEN <<>> ELSE outs[1])

\* a collation that adds to the entries self.submission already holds
test_epoch_end_accumulating(old, outs) ==
    LET new == [k \in ChainMapKeys(outs) |-> ChainMapGet(outs, k)]
    IN Some(IF old = None THEN new ELSE new @@ old[1])

\* SegModel.test_epoch_end(outputs): the new value of self.submission, old
\* being the value it replaces
test_epoch_end(old, outs) ==
    Some([k \in ChainMapKeys(outs) |-> ChainMapGet(outs, k)])

----------------------------------------------------------------------------
(* The data-loading collaborator (src.data) and the values the external    *)
(* functions return                                                        *)

\* samples of the training and validation sets: an image of shape (1, 2, 2)
\* and its mask of shape (2, 2)
FitSamples ==
    { [image |-> << << <<0, 1>>, <<2, 1>> >> >>, mask |-> << <<0, 1>>, <<1, 1>> >>],
      [image |-> << << <<1, 1>>, <<0, 2>> >> >>, mask |-> << <<1, 0>>, <<0, 2>> >>] }

\* samples of the test set; the first two carry the same filename
TestSamples ==
    { [image |-> << << <<0, 1>>, <<2, 1>> >> >>, filename |-> "a.png",
       team |-> "Bipbip", crop |-> "Haricot"],
      [image |-> << << <<1, 1>>, <<0, 2>> >> >>, filename |-> "a.png",
       team |-> "Pead", crop |-> "Mais"],
      [image |-> << << <<1, 0>>, <<0, 0>> >> >>, filename |-> "b.png",
       team |-> "Bipbip", crop |-> "Mais"] }

SeqsUpTo(S, k) == UNION {[1..m -> S] : m \in 0..k}

\* src.data.TrainBatch collated from a sequence of samples
TrainBatch(samples) ==
    [image |-> Tensor("uint8", [k \in 1..Len(samples) |-> samples[k].image]),
     mask |-> Tensor("uint8", [k \in 1..Len(samples) |-> samples[k].mask])]

\* src.data.TestBatch collated from a sequence of samples
TestBatch(samples) ==
    [image |-> Tensor("float32", [k \in 1..Len(samples) |-> samples[k].image]),
     filename |-> [k \in 1..Len(samples) |-> samples[k].filename],
     team |-> [k \in 1..Len(samples) |-> samples[k].team],
     crop |-> [k \in 1..Len(samples) |-> samples[k].crop]]

\* a test set cut into batches of bs samples, the last one possibly shorter
RECURSIVE Chunks(_, _)
Chunks(ds, bs) ==
    IF Len(ds) = 0 THEN <<>>
    ELSE IF Len(ds) <= bs THEN <<TestBatch(ds)>>
    ELSE <<TestBatch(SubSeq(ds, 1, bs))>> \o Chunks(SubSeq(ds, bs + 1, Len(ds)), bs)

BatchIndices == {0, 1, 49, 50, 100}
Losses == {Rat(1, 2), Rat(3, 1)}
IoUs == {Rat(0, 1), Rat(1, 2), Rat(1, 1)}
NumClasses == {2, 3}

----------------------------------------------------------------------------
(* The state machine: the trainer constructs the module, then runs the     *)
(* callbacks.  A test pass (test_dataloader, test_step per batch,          *)
(* test_epoch_end) is not interleaved with the other callbacks.            *)

Constructed(metrics) ==
    \E nc \in NumClasses, lg \in BOOLEAN, mt \in metrics :
        LET m == UNetSegModel_init(nc, 5, 64, FALSE, "1e-3", "CrossEntropyLoss",
                                   T_max_default)
        IN /\ hparams = m.hparams
           /\ net = m.net
           /\ submission = m.submission
           /\ logger = lg
           /\ metric = mt
           /\ loader = [batches |-> <<>>, pos |-> 1]
           /\ outputs = <<>>
           /\ call = [op |-> "__init__", args |-> <<>>, res |-> <<>>]

InTestPass == call.op \in {"test_dataloader", "test_step"}

TrainingStepOn(sampleSeqs, indices, losses) ==
    /\ ~InTestPass
    /\ \E s \in sampleSeqs, idx \in indices, loss \in losses :
        LET b == TrainBatch(s)
        IN call' = [op |-> "training_step",
                    args |-> [batch |-> b, batch_idx |-> idx, loss |-> loss],
                    res |-> training_step(net, logger, b, idx, loss)]
    /\ UNCHANGED <<hparams, net, logger, submission, loader, outputs, metric>>

ValidationStepOn(sampleSeqs, indices, losses) ==
    /\ ~InTestPass
    /\ \E s \in sampleSeqs, idx \in indices, loss \in losses :
        LET b == TrainBatch(s)
            ious == [k \in 1..Len(s) |-> metric[s[k]]]
        IN call' = [op |-> "validation_step",
                    args |-> [batch |-> b, batch_idx |-> idx, loss |-> loss,
                              ious |-> ious],
                    res |-> validation_step(net, logger, b, idx, loss, ious)]
    /\ UNCHANGED <<hparams, net, logger, submission, loader, outputs, metric>>

ForwardOn(sampleSeqs) ==
    /\ ~InTestPass
    /\ \E s \in sampleSeqs :
        LET x == Float(TrainBatch(s).image)
        IN call' = [op |-> "forward",
                    args |-> [x |-> x],
                    res |-> [ret |-> forward(net, x)]]
    /\ UNCHANGED <<hparams, net, logger, submission, loader, outputs, metric>>

ConfigureOptimizers ==
    /\ ~InTestPass
    /\ call' = [op |-> "configure_optimizers",
                args |-> <<>>,
                res |-> [ret |-> configure_optimizers(hparams, net)]]
    /\ UNCHANGED <<hparams, net, logger, submission, loader, outputs, metric>>

\* the trainer starts a test pass over a test set
TestDataloader ==
    /\ ~InTestPass
    /\ \E ds \in SeqsUpTo(TestSamples, MaxTestSet), bs \in 1..MaxBatch :
        loader' = [batches |-> Chunks(ds, bs), pos |-> 1]
    /\ outputs' = <<>>
    /\ call' = [op |-> "test_dataloader", args |-> <<>>, res |-> <<>>]
    /\ UNCHANGED <<hparams, net, logger, submission, metric>>

TestStep ==
    /\ InTestPass
    /\ loader.pos <= Len(loader.batches)
    /\ LET b == loader.batches[loader.pos]
           r == test_step(net, b, loader.pos - 1)
       IN /\ call' = [op |-> "test_step",
                      args |-> [batch |-> b, batch_idx |-> loader.pos - 1],
                      res |-> r]
          /\ outputs' = Append(outputs, r.ret)
    /\ loader' = [loader EXCEPT !.pos = @ + 1]
    /\ UNCHANGED <<hparams, net, logger, submission, metric>>

TestEpochEnd ==
    /\ InTestPass
    /\ loader.pos > Len(loader.batches)
    /\ submission' = test_epoch_end(submission, outputs)
    /\ call' = [op |-> "test_epoch_end",
                args |-> [outputs |-> outputs, batches |-> loader.batches],
                res |-> <<>>]
    /\ loader' = [batches |-> <<>>, pos |-> 1]
    /\ outputs' = <<>>
    /\ UNCHANGED <<hparams, net, logger, metric>>

(* The training and validation loops on their own, over every batch of up  *)
(* to MaxBatch samples and every value of the metric.                      *)

InitFit == Constructed([FitSamples -> IoUs])

TrainingStep == TrainingStepOn(SeqsUpTo(FitSamples, MaxBatch), BatchIndices, Losses)

ValidationStep == ValidationStepOn(SeqsUpTo(FitSamples, MaxBatch), BatchIndices, Losses)

Forward == ForwardOn(SeqsUpTo(FitSamples, MaxBatch))

NextFit ==
    \/ TrainingStep
    \/ ValidationStep
    \/ Forward
    \/ ConfigureOptimizers

SpecFit == InitFit /\ [][NextFit]_vars

(* Every callback, in any order the trainer allows; the training and       *)
(* validation callbacks run on batches of at most one sample.              *)

Init == Constructed({[s \in FitSamples |-> Rat(1, 2)]})

ShortTrainingStep == TrainingStepOn(SeqsUpTo(FitSamples, 1), {0, 1}, {Rat(1, 2)})

ShortValidationStep == ValidationStepOn(SeqsUpTo(FitSamples, 1), {0, 1}, {Rat(1, 2)})

ShortForward == ForwardOn(SeqsUpTo(FitSamples, 1))

Next ==
    \/ ShortTrainingStep
    \/ ShortValidationStep
    \/ ShortForward
    \/ ConfigureOptimizers
    \/ TestDataloader
    \/ TestStep
    \/ TestEpochEnd

Spec == Init /\ [][Next]_vars

----------------------------------------------------------------------------
(* Properties *)

StepOps == {"training_step", "validation_step", "test_step"}

\* the keys of the dicts of a list of test_step outputs
OutputKeys(outs) == {f \in {"a.png", "b.png"} : \E i \in 1..Len(outs) : f \in DOMAIN outs[i]}

\* the predicted mask of sample k of a test batch: the class of each pixel
SamplePrediction(b, k) ==
    ArgMax0(NetApply(net, Tensor("float32", <<b.image.data[k]>>)).data[1])

\* e is the entry of sample k of test batch b: its team, its crop and its
\* predicted mask, an array of shape (H, W)
IsEntryOf(e, b, k) ==
    /\ DOMAIN e = {"team", "crop", "mask"}
    /\ e.team = b.team[k]
    /\ e.crop = b.crop[k]
    /\ e.mask.shape = <<Len(SamplePrediction(b, k)), Len(SamplePrediction(b, k)[1])>>
    /\ e.mask.data = SamplePrediction(b, k)

\* C1: after test_epoch_end(outputs), the keys of self.submission are exactly
\* the filenames occurring in outputs, each once, also when several outputs
\* carry the same filename.
C1_OneEntryPerFilename ==
    call.op = "test_epoch_end" =>
        /\ submission # None
        /\ \A f \in {"a.png", "b.png"} :
            f \in DOMAIN submission[1] <=>
                \E i \in 1..Len(call.args.outputs) : f \in DOMAIN call.args.outputs[i]
        /\ DOMAIN submission[1] \subseteq {"a.png", "b.png"}
        /\ Cardinality(DOMAIN submission[1]) = Cardinality(OutputKeys(call.args.outputs))

C1_Witness ==
    /\ call.op = "test_epoch_end"
    /\ Len(call.args.outputs) = 2
    /\ DOMAIN call.args.outputs[1] = DOMAIN call.args.outputs[2]
    /\ Cardinality(DOMAIN submission[1]) = 1

\* C2 as stated: after a full test pass every sample of every test batch,
\* whatever the batch size, has an entry under its filename holding its own
\* team, crop and predicted mask.
C2_EverySampleHasItsEntry ==
    call.op = "test_epoch_end" =>
        \A i \in 1..Len(call.args.batches) :
            LET b == call.args.batches[i]
            IN \A k \in 1..Len(b.filename) :
                /\ b.filename[k] \in DOMAIN submission[1]
                /\ IsEntryOf(submission[1][b.filename[k]], b, k)

\* C2 amended: after a full test pass the first sample of every test batch
\* has an entry under its filename, and no other filename is a key; a sample
\* that is alone in its batch, and whose filename no earlier batch of the
\* pass starts with, has an entry holding its own team, crop and predicted
\* mask.
C2_FirstSampleHasItsEntry ==
    call.op = "test_epoch_end" =>
        /\ DOMAIN submission[1] =
               {call.args.batches[i].filename[1] : i \in 1..Len(call.args.batches)}
        /\ \A i \in 1..Len(call.args.batches) :
            LET b == call.args.batches[i]
            IN  (/\ Len(b.filename) = 1
                 /\ \A j \in 1..(i - 1) : call.args.batches[j].filename[1] # b.filename[1])
                => IsEntryOf(submission[1][b.filename[1]], b, 1)

C2_Witness ==
    /\ call.op = "test_epoch_end"
    /\ Len(call.args.batches) = 2
    /\ Len(call.args.batches[1].filename) = 1
    /\ Len(call.args.batches[2].filename) = 1
    /\ call.args.batches[1].filename[1] # call.args.batches[2].filename[1]
    /\ Cardinality(DOMAIN submission[1]) = 2

\* C3: training_step, validation_step and test_step leave every field of the
\* batch they receive as it was.
C3_BatchReadOnly ==
    call.op \in StepOps => call.res.batch = call.args.batch

C3_Witness ==
    /\ call.op = "training_step"
    /\ Len(call.args.batch.image.data) = 1
    /\ call.res.batch.image.dtype = "uint8"

\* twice the sum of the per-sample IoU values (each is 0, 1/2 or 1)
RECURSIVE TwiceSum(_, _)
TwiceSum(ious, k) ==
    IF k = 0 THEN 0 ELSE TwiceSum(ious, k - 1) + (2 * ious[k].n) \div ious[k].d

IsMeanOf(score, ious) ==
    /\ ~score.nan
    /\ score.d > 0
    /\ score.n * 2 * Len(ious) = TwiceSum(ious, Len(ious)) * score.d

LoggedIoUs ==
    {call.res.progbar["iou"]}
        \cup {call.res.logged[i]["validation/iou"] : i \in 1..Len(call.res.logged)}

\* C4 as stated: the IoU score validation_step logs is in [0,1], the sum of
\* the per-sample values divided by the number of samples, for every batch,
\* the empty one included.
C4_IoUInUnitInterval ==
    call.op = "validation_step" =>
        \A v \in LoggedIoUs : InUnit(v) /\ IsMeanOf(v, call.args.ious)

\* C4 amended: for every validation batch with at least one sample the IoU
\* score logged is the sum of the per-sample values divided by the number of
\* samples, and is in [0,1]; for an empty batch it is 0/0, NaN.
C4_IoUInUnitIntervalNonEmpty ==
    call.op = "validation_step" =>
        \A v \in LoggedIoUs :
            IF Len(call.args.batch.image.data) >= 1
            THEN InUnit(v) /\ IsMeanOf(v, call.args.ious)
            ELSE v.nan

C4_Witness ==
    /\ call.op = "validation_step"
    /\ Len(call.args.batch.image.data) = 2
    /\ call.args.ious[1] # call.args.ious[2]
    /\ logger
    /\ call.res.logged[1]["validation/iou"] = Rat(1, 2)

\* C5: forward(x) returns the output of the network made by build(), which
\* has the num_classes given to the constructor: for x of shape
\* (batch, channels, H, W) the result has shape (batch, num_classes, H, W).
C5_ForwardShape ==
    call.op = "forward" =>
        LET x == call.args.x.data
            y == call.res.ret.data
        IN /\ net.num_classes = hparams.num_classes
           /\ call.res.ret = NetApply(net, call.args.x)
           /\ Len(y) = Len(x)
           /\ \A b \in 1..Len(x) :
                /\ Len(y[b]) = hparams.num_classes
                /\ \A c \in 1..Len(y[b]) :
                    /\ Len(y[b][c]) = Len(x[b][1])
                    /\ \A i \in 1..Len(y[b][c]) : Len(y[b][c][i]) = Len(x[b][1][i])

C5_Witness ==
    /\ call.op = "forward"
    /\ Len(call.args.x.data) = 2
    /\ hparams.num_classes = 3
    /\ Len(call.res.ret.data[2]) = 3

Positions(evs, e) == {i \in 1..Len(evs) : evs[i] = e}

\* C6: in training_step and validation_step the forward pass comes first,
\* then the loss, then the logging: the experiment logger is called once
\* when a logger is attached and never otherwise, always after the loss, and
\* the step returns the loss.
C6_ForwardLossLog ==
    call.op \in {"training_step", "validation_step"} =>
        LET evs == call.res.events
        IN /\ Cardinality(Positions(evs, "forward")) = 1
           /\ Cardinality(Positions(evs, "loss_fn")) = 1
           /\ \A i \in Positions(evs, "forward"), j \in Positions(evs, "loss_fn") : i < j
           /\ \A j \in Positions(evs, "loss_fn"), k \in Positions(evs, "experiment.log") : j < k
           /\ Cardinality(Positions(evs, "experiment.log")) = (IF logger THEN 1 ELSE 0)
           /\ Len(call.res.logged) = (IF logger THEN 1 ELSE 0)
           /\ call.res.ret = call.args.loss

C6_Witness ==
    /\ call.op = "validation_step"
    /\ logger
    /\ Len(call.res.logged) = 1
    /\ call.res.ret = Rat(3, 1)

IsMaskListOf(lst, b) ==
    /\ Len(lst) = Len(b.image.data)
    /\ \A k \in 1..Len(lst) :
        /\ lst[k].image.pil = b.image.data[k]
        /\ lst[k].masks.groud_truth.mask_data = Transpose(b.mask.data[k])
        /\ lst[k].masks.predictions.mask_data =
               ArgMax0(NetApply(net, Tensor("float32", <<b.image.data[k]>>)).data[1])

\* C7: with a logger attached, the dictionary training_step logs always has
\* "training/loss", and has "training/predictions" exactly when batch_index
\* is a multiple of 50 and the batch has at least one sample; the list then
\* holds one mask image per sample, in batch order.
C7_TrainingPredictions ==
    (call.op = "training_step" /\ logger) =>
        /\ Len(call.res.logged) = 1
        /\ LET d == call.res.logged[1]
               b == call.args.batch
           IN /\ "training/loss" \in DOMAIN d
              /\ d["training/loss"] = call.args.loss
              /\ "training/predictions" \in DOMAIN d <=>
                    /\ call.args.batch_idx \in {0, 50, 100}
                    /\ Len(b.image.data) >= 1
              /\ "training/predictions" \in DOMAIN d =>
                    IsMaskListOf(d["training/predictions"], b)

C7_Witness ==
    /\ call.op = "training_step"
    /\ logger
    /\ call.args.batch_idx = 50
    /\ Len(call.args.batch.image.data) = 2
    /\ call.args.batch.image.data[1] # call.args.batch.image.data[2]
    /\ Len(call.res.logged[1]["training/predictions"]) = 2

\* C8: with a logger attached, the dictionary validation_step logs always has
\* "validation/loss" and "validation/iou", and has "validation/predictions"
\* exactly when batch_idx = 0, holding one mask image per sample.
C8_ValidationPredictions ==
    (call.op = "validation_step" /\ logger) =>
        /\ Len(call.res.logged) = 1
        /\ LET d == call.res.logged[1]
               b == call.args.batch
           IN /\ "validation/loss" \in DOMAIN d
              /\ "validation/iou" \in DOMAIN d
              /\ "validation/predictions" \in DOMAIN d <=> call.args.batch_idx = 0
              /\ "validation/predictions" \in DOMAIN d =>
                    IsMaskListOf(d["validation/predictions"], b)

C8_Witness ==
    /\ call.op = "validation_step"
    /\ logger
    /\ call.args.batch_idx = 0
    /\ Len(call.args.batch.image.data) = 0
    /\ "validation/predictions" \in DOMAIN call.res.logged[1]

\* C9: test_step returns a dict with one key, the filename of the batch's
\* first sample, whose value is the submission record without its filename;
\* of several outputs with the same filename test_epoch_end keeps the
\* earliest.
C9_FirstFilenameFirstWins ==
    /\ call.op = "test_step" =>
        LET b == call.args.batch
            r == call.res.ret
        IN /\ DOMAIN r = {b.filename[1]}
           /\ DOMAIN r[b.filename[1]] = {"team", "crop", "mask"}
           /\ r[b.filename[1]].team = b.team[1]
           /\ r[b.filename[1]].crop = b.crop[1]
    /\ call.op = "test_epoch_end" =>
        \A i \in 1..Len(call.args.outputs) :
            \A f \in DOMAIN call.args.outputs[i] :
                (\A j \in 1..(i - 1) : f \notin DOMAIN call.args.outputs[j])
                    => /\ f \in DOMAIN submission[1]
                       /\ submission[1][f] = call.args.outputs[i][f]

C9_Witness ==
    /\ call.op = "test_epoch_end"
    /\ Len(call.args.outputs) = 2
    /\ DOMAIN call.args.outputs[1] = {"a.png"}
    /\ DOMAIN call.args.outputs[2] = {"a.png"}
    /\ call.args.outputs[1]["a.png"] # call.args.outputs[2]["a.png"]
    /\ submission[1]["a.png"] = call.args.outputs[1]["a.png"]

\* C10: self.submission is None after construction; no callback but
\* test_epoch_end changes it; test_epoch_end replaces it by a dict holding the
\* entries of that pass's outputs and nothing else, the empty dict when there
\* are no outputs.
C10_SubmissionReplaced ==
    /\ submission = None
    /\ [][/\ call'.op # "test_epoch_end" => submission' = submission
          /\ call'.op = "test_epoch_end" =>
                /\ submission' # None
                /\ DOMAIN submission'[1] = OutputKeys(outputs)
                /\ \A f \in DOMAIN submission'[1] :
                      \E i \in 1..Len(outputs) :
                          f \in DOMAIN outputs[i] /\ submission'[1][f] = outputs[i][f]
                /\ outputs = <<>> => submission' = Some(<<>>)]_vars

C10_Witness ==
    /\ call.op = "test_epoch_end"
    /\ call.args.outputs = <<>>
    /\ submission = Some(<<>>)

============================================================================
